---- MODULE Spec2Model ----
(***************************************************************************)
(* The hello-world counter program: HelloInstruction::unpack               *)
(* (src/program-rust/src/instruction.rs) and process_instruction           *)
(* (src/program-rust/src/lib.rs).                                          *)
(*                                                                         *)
(* A u32 is kept at its full width as two 16-bit limbs [hi, lo], its value *)
(* being hi * 65536 + lo; bytes are the integers 0..255.  A Pubkey is only *)
(* ever compared for equality, so identities are small integers.           *)
(***************************************************************************)
EXTENDS Integers, Sequences, FiniteSets

VARIABLES
    account,          \* the greeted account as the ledger holds it: [owner, data]
    overflow_checks,  \* whether the build traps on integer overflow
    call,             \* arguments of the latest call: [program_id, accounts, instruction_data]
    instruction,      \* what unpack returned for call.instruction_data
    result,           \* what the latest process_instruction returned
    scenario,         \* how many steps of the end-to-end scenario have run so far
    calls             \* number of invocations so far

vars == <<account, overflow_checks, call, instruction, result, scenario, calls>>

----------------------------------------------------------------------------
(* Bounds *)

MaxCalls == 4

MaxLen == 6

ByteVals == {0, 1, 2, 3, 10, 255}

Pubkeys == {0, 1}

----------------------------------------------------------------------------
(* u32 values *)

LimbBase == 256 * 256

U32(hi, lo) == [hi |-> hi, lo |-> lo]

U32_ZERO == U32(0, 0)

U32_MAX == U32(LimbBase - 1, LimbBase - 1)

from_be_bytes(b) == U32(b[2] + 256 * b[1], b[4] + 256 * b[3])

\* u32::from_le_bytes: b[1] is the least significant byte
from_le_bytes(b) == U32(b[3] + 256 * b[4], b[1] + 256 * b[2])

\* u32::to_le_bytes, as borsh writes a u32
to_le_bytes(v) == <<v.lo % 256, v.lo \div 256, v.hi % 256, v.hi \div 256>>

\* v + 1 modulo 2^32
wrapping_inc(v) ==
    IF v.lo < LimbBase - 1 THEN U32(v.hi, v.lo + 1)
    ELSE IF v.hi < LimbBase - 1 THEN U32(v.hi + 1, 0)
    ELSE U32_ZERO

\* v - 1 modulo 2^32
wrapping_dec(v) ==
    IF v.lo > 0 THEN U32(v.hi, v.lo - 1)
    ELSE IF v.hi > 0 THEN U32(v.hi - 1, LimbBase - 1)
    ELSE U32_MAX

----------------------------------------------------------------------------
(* HelloInstruction and HelloInstruction::unpack *)

Increment == [err |-> "None", variant |-> "Increment", value |-> U32_ZERO]

Decrement == [err |-> "None", variant |-> "Decrement", value |-> U32_ZERO]

Set(v) == [err |-> "None", variant |-> "Set", value |-> v]

InvalidInstructionData ==
    [err |-> "InvalidInstructionData", variant |-> "None", value |-> U32_ZERO]

\* no unpack has run yet
Pending == [err |-> "Pending", variant |-> "None", value |-> U32_ZERO]

unpack_empty_increment(input) ==
    IF Len(input) = 0 THEN Increment
    ELSE LET tag == Head(input)
             rest == Tail(input)
         IN  IF tag = 0 THEN Increment
             ELSE IF tag = 1 THEN Decrement
             ELSE IF tag = 2 THEN
                 IF Len(rest) # 4 THEN InvalidInstructionData
                 ELSE Set(from_le_bytes(SubSeq(rest, 1, 4)))
             ELSE InvalidInstructionData

unpack_strict_tags(input) ==
    IF Len(input) = 0 THEN InvalidInstructionData
    ELSE LET tag == Head(input)
             rest == Tail(input)
         IN  IF tag = 0 THEN (IF Len(rest) # 0 THEN InvalidInstructionData ELSE Increment)
             ELSE IF tag = 1 THEN (IF Len(rest) # 0 THEN InvalidInstructionData ELSE Decrement)
             ELSE IF tag = 2 THEN
                 IF Len(rest) # 4 THEN InvalidInstructionData
                 ELSE Set(from_le_bytes(SubSeq(rest, 1, 4)))
             ELSE InvalidInstructionData

unpack(input) ==
    IF Len(input) = 0 THEN InvalidInstructionData       \* split_first() is None
    ELSE LET tag == Head(input)
             rest == Tail(input)
         IN  IF tag = 0 THEN Increment
             ELSE IF tag = 1 THEN Decrement
             ELSE IF tag = 2 THEN
                 IF Len(rest) # 4 THEN InvalidInstructionData
                 ELSE Set(from_le_bytes(SubSeq(rest, 1, 4)))
             ELSE InvalidInstructionData

----------------------------------------------------------------------------
(* GreetingAccount and its borsh encoding *)

\* GreetingAccount::try_from_slice: a u32 read, then every byte must be consumed
try_from_slice(data) ==
    IF Len(data) # 4 THEN [err |-> "BorshIoError", counter |-> U32_ZERO]
    ELSE [err |-> "None", counter |-> from_le_bytes(data)]

\* greeting_account.serialize into the account's byte slice: write_all of the
\* four bytes; a shorter slice takes what fits and then fails
serialize(counter, data) ==
    LET bytes == to_le_bytes(counter)
    IN  IF Len(data) < 4
        THEN [err |-> "BorshIoError", data |-> SubSeq(bytes, 1, Len(data))]
        ELSE [err |-> "None", data |-> bytes \o SubSeq(data, 5, Len(data))]

----------------------------------------------------------------------------
(* process_instruction *)

owner_is_program_any(acc, program_id) == TRUE

\* the negation of `account.owner != program_id`
owner_is_program(acc, program_id) == acc.owner = program_id

apply_instruction_inc2(counter, instr, checks) ==
    IF instr.variant = "Increment" THEN
        [panic |-> FALSE, counter |-> wrapping_inc(wrapping_inc(counter))]
    ELSE IF instr.variant = "Decrement" THEN
        IF counter = U32_ZERO /\ checks THEN [panic |-> TRUE, counter |-> counter]
        ELSE [panic |-> FALSE, counter |-> wrapping_dec(counter)]
    ELSE [panic |-> FALSE, counter |-> instr.value]

apply_instruction_set_inc(counter, instr, checks) ==
    IF instr.variant = "Increment" THEN
        IF counter = U32_MAX /\ checks THEN [panic |-> TRUE, counter |-> counter]
        ELSE [panic |-> FALSE, counter |-> wrapping_inc(counter)]
    ELSE IF instr.variant = "Decrement" THEN
        IF counter = U32_ZERO /\ checks THEN [panic |-> TRUE, counter |-> counter]
        ELSE [panic |-> FALSE, counter |-> wrapping_dec(counter)]
    ELSE [panic |-> FALSE, counter |-> wrapping_inc(instr.value)]

\* the match on the instruction: `+= 1` and `-= 1` are unchecked, so on
\* overflow they panic in a build with overflow checks and wrap in one without
apply_instruction(counter, instr, checks) ==
    IF instr.variant = "Increment" THEN
        IF counter = U32_MAX /\ checks THEN [panic |-> TRUE, counter |-> counter]
        ELSE [panic |-> FALSE, counter |-> wrapping_inc(counter)]
    ELSE IF instr.variant = "Decrement" THEN
        IF counter = U32_ZERO /\ checks THEN [panic |-> TRUE, counter |-> counter]
        ELSE [panic |-> FALSE, counter |-> wrapping_dec(counter)]
    ELSE [panic |-> FALSE, counter |-> instr.value]

Outcome(r, accounts) == [result |-> r, accounts |-> accounts]

process_instruction_write_first(program_id, accounts, instruction_data, checks) ==
    LET instr == unpack(instruction_data)
    IN  IF instr.err # "None" THEN Outcome(instr.err, accounts)
        ELSE IF Len(accounts) = 0 THEN Outcome("NotEnoughAccountKeys", accounts)
        ELSE
    LET acc == accounts[1]
        greeting_account == try_from_slice(acc.data)
    IN  IF greeting_account.err # "None"
        THEN Outcome(greeting_account.err,
                     [accounts EXCEPT ![1].data = serialize(U32_ZERO, acc.data).data])
        ELSE
    LET applied == apply_instruction(greeting_account.counter, instr, checks)
    IN  IF applied.panic THEN Outcome("Panic", accounts)
        ELSE
    LET written == serialize(applied.counter, acc.data)
        after == [accounts EXCEPT ![1].data = written.data]
    IN  IF written.err # "None" THEN Outcome(written.err, after)
        ELSE IF ~owner_is_program(acc, program_id) THEN Outcome("IncorrectProgramId", after)
        ELSE Outcome("Ok", after)

process_instruction_owner_first(program_id, accounts, instruction_data, checks) ==
    IF Len(accounts) = 0 THEN Outcome("NotEnoughAccountKeys", accounts)
    ELSE
    LET acc == accounts[1]
        greeting_account == try_from_slice(acc.data)
    IN  IF greeting_account.err # "None" THEN Outcome(greeting_account.err, accounts)
        ELSE IF ~owner_is_program(acc, program_id) THEN Outcome("IncorrectProgramId", accounts)
        ELSE
    LET instr == unpack(instruction_data)
    IN  IF instr.err # "None" THEN Outcome(instr.err, accounts)
        ELSE
    LET applied == apply_instruction(greeting_account.counter, instr, checks)
    IN  IF applied.panic THEN Outcome("Panic", accounts)
        ELSE
    LET written == serialize(applied.counter, acc.data)
        after == [accounts EXCEPT ![1].data = written.data]
    IN  IF written.err # "None" THEN Outcome(written.err, after)
        ELSE Outcome("Ok", after)

\* the entrypoint; `accounts` is the slice of AccountInfo it is handed, and the
\* outcome carries that slice with whatever the call wrote into it
process_instruction(program_id, accounts, instruction_data, checks) ==
    LET instr == unpack(instruction_data)
    IN  IF instr.err # "None" THEN Outcome(instr.err, accounts)
        \* next_account_info on an empty iterator
        ELSE IF Len(accounts) = 0 THEN Outcome("NotEnoughAccountKeys", accounts)
        ELSE
    LET acc == accounts[1]
    IN  IF ~owner_is_program(acc, program_id) THEN Outcome("IncorrectProgramId", accounts)
        ELSE
    LET greeting_account == try_from_slice(acc.data)
    IN  IF greeting_account.err # "None" THEN Outcome(greeting_account.err, accounts)
        ELSE
    LET applied == apply_instruction(greeting_account.counter, instr, checks)
    IN  IF applied.panic THEN Outcome("Panic", accounts)
        ELSE
    LET written == serialize(applied.counter, acc.data)
        after == [accounts EXCEPT ![1].data = written.data]
    IN  IF written.err # "None" THEN Outcome(written.err, after)
        ELSE Outcome("Ok", after)

----------------------------------------------------------------------------
(* Inputs *)

\* every byte string over ByteVals of length 0..MaxLen
DecoderInputs == UNION {[1..n -> ByteVals] : n \in 0..MaxLen}

\* the instruction buffers the invocations draw from
InstructionInputs ==
    { <<>>, <<0>>, <<1>>, <<2>>, <<3>>, <<0, 7>>, <<1, 255, 255>>,
      <<2, 10, 0, 0, 0>>, <<2, 255, 255, 255, 255>>, <<2, 1, 2, 3, 4>>,
      <<2, 1, 2, 3>>, <<2, 1, 2, 3, 4, 5>>, <<255, 0, 0, 0, 0>> }

\* the contents the account's storage may start with
InitialData ==
    { <<0, 0, 0, 0>>, <<255, 255, 255, 255>>, <<255, 255, 0, 0>>, <<0, 0, 1, 0>>,
      <<0, 0, 0>>, <<0, 0, 0, 0, 0>> }

\* the end-to-end scenario: the instruction buffers and the counters they leave
ScenarioInputs == << <<0>>, <<0>>, <<2, 10, 0, 0, 0>>, <<1>> >>

ScenarioCounters == << U32(0, 1), U32(0, 2), U32(0, 10), U32(0, 9) >>

NoCall == [program_id |-> 0, accounts |-> <<>>, instruction_data |-> <<>>]

----------------------------------------------------------------------------
(* The ledger and its invocations *)

Init ==
    /\ account \in [owner : Pubkeys, data : InitialData]
    /\ overflow_checks \in BOOLEAN
    /\ call = NoCall
    /\ instruction = Pending
    /\ result = "None"
    /\ scenario = IF account.data = <<0, 0, 0, 0>> THEN 0 ELSE -1
    /\ calls = 0

\* the runtime invokes the program once
Invoke ==
    /\ calls < MaxCalls
    /\ \E program_id \in Pubkeys, accounts \in {<<>>, <<account>>},
          instruction_data \in InstructionInputs :
          LET out == process_instruction(program_id, accounts, instruction_data,
                                         overflow_checks)
          IN  /\ call' = [program_id |-> program_id, accounts |-> accounts,
                          instruction_data |-> instruction_data]
              /\ instruction' = unpack(instruction_data)
              /\ result' = out.result
              /\ account' = IF Len(accounts) = 0 THEN account ELSE out.accounts[1]
              /\ scenario' =
                    IF /\ scenario >= 0
                       /\ scenario < Len(ScenarioInputs)
                       /\ accounts = <<account>>
                       /\ program_id = account.owner
                       /\ instruction_data = ScenarioInputs[scenario + 1]
                    THEN scenario + 1
                    ELSE -1
    /\ calls' = calls + 1
    /\ UNCHANGED overflow_checks

Next == Invoke

Spec == Init /\ [][Next]_vars

\* the decoder alone, over every input of DecoderInputs
InitUnpack ==
    /\ account = [owner |-> 0, data |-> <<0, 0, 0, 0>>]
    /\ overflow_checks = FALSE
    /\ call \in [program_id : {0}, accounts : {<<>>}, instruction_data : DecoderInputs]
    /\ instruction = Pending
    /\ result = "None"
    /\ scenario = -1
    /\ calls = 0

Unpack ==
    /\ instruction = Pending
    /\ instruction' = unpack(call.instruction_data)
    /\ UNCHANGED <<account, overflow_checks, call, result, scenario, calls>>

NextUnpack == Unpack

SpecUnpack == InitUnpack /\ [][NextUnpack]_vars

----------------------------------------------------------------------------
(* Properties *)

\* the latest call was handed the account
Greeted == result # "None" /\ Len(call.accounts) > 0

\* the account as the latest call found it
Before == call.accounts[1]

Counter(data) == try_from_slice(data).counter

LeValue(b0, b1, b2, b3) == U32(b2 + 256 * b3, b0 + 256 * b1)

Unpacked == instruction # Pending

Input == call.instruction_data

\* C1: a call whose instruction decodes and whose first account is owned by
\* another identity than the program fails with IncorrectProgramId and leaves
\* the account's bytes as they were
C1_OwnerMismatchRejected ==
    (Greeted /\ instruction.err = "None" /\ Before.owner # call.program_id)
        => (result = "IncorrectProgramId" /\ account.data = Before.data)

C1_Witness ==
    /\ Greeted
    /\ instruction = Increment
    /\ Before.owner # call.program_id
    /\ try_from_slice(Before.data).err = "None"
    /\ result = "IncorrectProgramId"

\* C2: on a program-owned account storing 0 (then 1), a call with empty
\* instruction data succeeds and stores 1 (then 2)
C2_EmptyDataIncrements ==
    (/\ Greeted
     /\ Input = <<>>
     /\ Before.owner = call.program_id
     /\ Before.data \in {<<0, 0, 0, 0>>, <<1, 0, 0, 0>>})
        => (/\ result = "Ok"
            /\ account.data = to_le_bytes(wrapping_inc(Counter(Before.data))))

\* C3: tag 2 followed by exactly four bytes unpacks to Set of their
\* little-endian value; tag 2 followed by any other number of bytes is
\* InvalidInstructionData
C3_SetExact ==
    (Unpacked /\ Len(Input) > 0 /\ Input[1] = 2)
        => IF Len(Input) = 5
           THEN instruction = Set(LeValue(Input[2], Input[3], Input[4], Input[5]))
           ELSE instruction = InvalidInstructionData

C3_Witness ==
    /\ Input = <<2, 1, 2, 3, 255>>
    /\ instruction = Set(U32(3 + 256 * 255, 1 + 256 * 2))

\* C4: the empty input and every input whose first byte is not 0, 1 or 2
\* unpack to InvalidInstructionData
C4_InvalidTags ==
    (Unpacked /\ (Len(Input) = 0 \/ Input[1] \notin {0, 1, 2}))
        => instruction = InvalidInstructionData

C4_Witness ==
    /\ Unpacked
    /\ Len(Input) = 0
    /\ instruction = InvalidInstructionData

\* C5: first byte 0 unpacks to Increment and first byte 1 to Decrement,
\* whatever follows
C5_TagOnly ==
    (Unpacked /\ Len(Input) > 0)
        => /\ Input[1] = 0 => instruction = Increment
           /\ Input[1] = 1 => instruction = Decrement

C5_Witness ==
    /\ Len(Input) = 5
    /\ Input[1] = 1
    /\ Input[5] = 255
    /\ instruction = Decrement

\* C6: Increment and Decrement on a program-owned, well-formed account always
\* succeed and store the old counter plus or minus one modulo 2^32
C6_WrappingNeverFails ==
    (/\ Greeted
     /\ instruction.variant \in {"Increment", "Decrement"}
     /\ Before.owner = call.program_id
     /\ try_from_slice(Before.data).err = "None")
        => (/\ result = "Ok"
            /\ try_from_slice(account.data).err = "None"
            /\ Counter(account.data) =
                  IF instruction.variant = "Increment"
                  THEN wrapping_inc(Counter(Before.data))
                  ELSE wrapping_dec(Counter(Before.data)))

\* C7: a call that does not return Ok leaves the account exactly as it was
C7_ErrorLeavesStorage == [][(result' # "Ok") => (account' = account)]_vars

C7_Witness ==
    /\ Greeted
    /\ instruction = Set(U32(0, 10))
    /\ Before.owner = call.program_id
    /\ result = "BorshIoError"
    /\ account = Before

\* C8: from a program-owned counter 0, the calls [0], [0], [2,10,0,0,0], [1]
\* all succeed and leave the counter at 1, 2, 10 and 9
C8_Scenario ==
    (scenario >= 1)
        => (/\ result = "Ok"
            /\ try_from_slice(account.data) =
                  [err |-> "None", counter |-> ScenarioCounters[scenario]])

C8_Witness ==
    /\ scenario = 4
    /\ account.data = <<9, 0, 0, 0>>

\* C9: a successful Set(v) leaves the stored counter equal to v whatever it
\* was before, and the same call once more leaves the account as it is
C9_SetOverwrites ==
    (result = "Ok" /\ instruction.variant = "Set")
        => (/\ try_from_slice(account.data) =
                  [err |-> "None", counter |-> instruction.value]
            /\ process_instruction(call.program_id, <<account>>, Input, overflow_checks)
                  = Outcome("Ok", <<account>>))

C9_Witness ==
    /\ result = "Ok"
    /\ instruction = Set(U32(1027, 513))
    /\ Before.data = <<255, 255, 255, 255>>
    /\ account.data = <<1, 2, 3, 4>>

\* C10: decoding comes first, then the ownership check, then the read of the
\* stored record: an undecodable instruction is reported as such whoever owns
\* the account, a foreign owner is reported whatever the stored bytes are, and
\* a deserialization failure or a success only follows both
C10_StepOrder ==
    /\ (result # "None" /\ instruction.err # "None") => result = instruction.err
    /\ (Greeted /\ instruction.err = "None" /\ Before.owner # call.program_id)
          => result = "IncorrectProgramId"
    /\ (result \in {"BorshIoError", "Ok", "Panic"})
          => (Greeted /\ instruction.err = "None" /\ Before.owner = call.program_id)

C10_Witness ==
    /\ Greeted
    /\ Before.owner # call.program_id
    /\ try_from_slice(Before.data).err # "None"
    /\ instruction = InvalidInstructionData
    /\ result = "InvalidInstructionData"

====
